---- MODULE Spec2Model ----
(***************************************************************************)
(* Replenishment engine of backend/app/services/replenishment_service.py:  *)
(* the per-pair shipment formulas, the warehouse allocation and the run    *)
(* that replaces the shipment plan of a run date inside a database         *)
(* session.                                                                *)
(*                                                                         *)
(* Numbers.  Python floats are modelled as exact rationals kept as scaled  *)
(* integers: a daily-sales rate x is kept as 200*x (medians of integer     *)
(* daily totals are multiples of 1/2, seasonality multipliers are kept in  *)
(* hundredths), and a priority score as a pair <<numerator, denominator>>. *)
(* The error of the binary representation of a float is not modelled.      *)
(* An optional value (a row that may be absent, an optional argument) is   *)
(* a set with at most one element.                                         *)
(***************************************************************************)
EXTENDS Integers, Sequences, FiniteSets, TLC

---------------------------------------------------------------------------
(* Bounds of the model *)

MaxRuns == 3
MaxWh == 3
MaxAllocWh == 6
MaxRequests == 3
MaxQty == 2
MaxPrio == 2
MaxOnHand == 3
MaxDailyTotal == 2
MaxSeriesLen == 3
MaxSnapshotDays == 29
MaxClock == 1

(* Program constants *)

REVIEW_PERIOD_DAYS == 7
LEAD_TIME_DAYS == 2
COVER_DAYS == REVIEW_PERIOD_DAYS + LEAD_TIME_DAYS
WAREHOUSE_STORE_ID == 0

(* The universes of the model: two stores besides the warehouse, one      *)
(* tracked product, two run dates, two database sessions                   *)
Stores == {1, 2}
Products == {1}
Dates == {1, 2}
Sessions == {1, 2}
AllStores == Stores \cup {WAREHOUSE_STORE_ID}

---------------------------------------------------------------------------
(* Small helpers *)

Max2(a, b) == IF a >= b THEN a ELSE b
Min2(a, b) == IF a <= b THEN a ELSE b

(* math.ceil(n / d) for an integer n and d > 0 *)
CeilDiv(n, d) == IF n % d = 0 THEN n \div d ELSE (n \div d) + 1

(* the element of an optional value, or dflt when absent (dict.get) *)
GetOr(opt, dflt) == IF opt = {} THEN dflt ELSE CHOOSE x \in opt : TRUE

RECURSIVE SumSeq(_)
SumSeq(q) == IF q = <<>> THEN 0 ELSE Head(q) + SumSeq(Tail(q))

RECURSIVE SumSet(_)
SumSet(S) ==
    IF S = {} THEN 0
    ELSE LET x == CHOOSE y \in S : TRUE IN x.allocated_ship_qty + SumSet(S \ {x})

SeqToSet(q) == {q[i] : i \in 1..Len(q)}

RowsOfSku(rows, sku_id) == {x \in rows : x.sku_id = sku_id}

Perms(S) ==
    {q \in [1..Cardinality(S) -> S] : \A i, j \in 1..Cardinality(S) : q[i] = q[j] => i = j}

---------------------------------------------------------------------------
(* Demand estimate *)

(* the rows of the sales query passed on without the "qty > 0" test *)
FallbackSeriesKeepingZeros(totals) == totals

(* rows of the batched sales query of one pair that pass "qty > 0" *)
FallbackSeries(totals) == SelectSeq(totals, LAMBDA q : q > 0)

RECURSIVE InsertAsc(_, _)
InsertAsc(sorted, x) ==
    IF sorted = <<>> THEN <<x>>
    ELSE IF x < Head(sorted) THEN <<x>> \o sorted
    ELSE <<Head(sorted)>> \o InsertAsc(Tail(sorted), x)

RECURSIVE SortAsc(_)
SortAsc(q) == IF q = <<>> THEN <<>> ELSE InsertAsc(SortAsc(Tail(q)), Head(q))

(* rows of the snapshot-mode sales query of one pair, joined to the day's  *)
(* snapshot with quantity_on_hand > 0, that pass "qty > 0"                 *)
SnapshotSeries(totals, snaps) ==
    LET joined == {k \in 1..Len(totals) : \E q \in snaps[k] : q > 0}
        Pick[k \in 0..Len(totals)] ==
            IF k = 0 THEN <<>>
            ELSE IF k \in joined /\ totals[k] > 0 THEN Append(Pick[k - 1], totals[k])
            ELSE Pick[k - 1]
    IN Pick[Len(totals)]

(* 2 * statistics.median(series), 0 for an empty series *)
Median2(series) ==
    LET s == SortAsc(series)
        n == Len(s)
    IN IF n = 0 THEN 0
       ELSE IF n % 2 = 1 THEN 2 * s[(n + 1) \div 2]
       ELSE s[n \div 2] + s[(n \div 2) + 1]

---------------------------------------------------------------------------
(* Data readiness *)

(* the run took snapshot mode only above 28 snapshot days *)
CalcModeAbove28(snapshot_days) == IF snapshot_days > 28 THEN "snapshot" ELSE "fallback"

(* the run: calc_mode = "snapshot" if snapshot_days >= 28 else "fallback" *)
CalcMode(snapshot_days) == IF snapshot_days >= 28 THEN "snapshot" ELSE "fallback"

(* get_data_readiness on a day numbered today *)
DataReadiness(snapshot_days, today) ==
    LET days_until_full == Max2(0, 28 - snapshot_days)
    IN [snapshot_days_available |-> snapshot_days,
        days_until_full_accuracy |-> days_until_full,
        full_accuracy_date |-> today + days_until_full,
        calculation_mode |-> IF snapshot_days >= 28 THEN "snapshot" ELSE "fallback"]

---------------------------------------------------------------------------
(* Tier parameters *)

DefaultTier ==
    [tier |-> "B", safety_days |-> 3, target_cover_days |-> 7, expiry_window_days |-> 60]

(* the lookup that ignores the store's tier row *)
TierParamsIgnoringRow(tierRow) == DefaultTier

(* tier_cache.get(store_id, {...Tier B...}) *)
TierParams(tierRow) == GetOr(tierRow, DefaultTier)

---------------------------------------------------------------------------
(* Per-pair shipment formulas.  med2 is twice the median of the pair's     *)
(* series and mult100 a hundred times the seasonality multiplier, so the   *)
(* rate and every level derived from it are RateScale times the value the  *)
(* code holds.                                                             *)

RateScale == 200

SeasonAdj(med2, mult100) == med2 * mult100

SafetyStock(s, tp) == s * tp.safety_days

(* the min level without the safety stock *)
MinLevelNoSafety(s, tp) == s * COVER_DAYS

MinLevel(s, tp) == (s * COVER_DAYS) + SafetyStock(s, tp)

MaxLevel(s, tp) == MinLevel(s, tp) + (s * tp.target_cover_days)

ExpiryCap(s, tp) == s * tp.expiry_window_days

(* the final max without the expiry cap *)
FinalMaxUncapped(s, tp) == MaxLevel(s, tp)

FinalMax(s, tp) == Min2(MaxLevel(s, tp), ExpiryCap(s, tp))

(* the request taken from final_max alone, whatever the pair holds *)
RequestedShipQtyIgnoringPosition(final_max, inventory_position) ==
    Max2(0, CeilDiv(final_max, RateScale))

(* max(0, math.ceil(final_max - inventory_position)) *)
RequestedShipQty(final_max, inventory_position) ==
    Max2(0, CeilDiv(final_max - (RateScale * inventory_position), RateScale))

(* days_of_stock = on_hand / max(season_adj_sales, 0.1) when either is     *)
(* positive and 0.0 otherwise, as the exact fraction <<num, den>>, den > 0 *)
DaysOfStock(s, on_hand) ==
    IF s > 0 \/ on_hand > 0
    THEN <<on_hand * RateScale, Max2(s, RateScale \div 10)>>
    ELSE <<0, 1>>

(* priority_score = season_adj_sales * 0.6 + stockout_risk * 0.4 with      *)
(* stockout_risk = 1 / max(days_of_stock, 0.1).                            *)
(* The result is the exact fraction <<num, den>>, den > 0.                 *)
PriorityScore(s, on_hand) ==
    LET m == Max2(s, RateScale \div 10)
        oh == IF on_hand > 0 THEN on_hand ELSE 1
        riskIsTen == (on_hand <= 0) \/ (10 * RateScale * on_hand < m)
    IN <<(6 * s * oh) + (IF riskIsTen THEN 40 * RateScale * oh ELSE 4 * m),
         10 * RateScale * oh>>

PrioLess(a, b) == a[1] * b[2] < b[1] * a[2]

(* round(num / den, digits) in units of 10^-digits, den > 0: to the        *)
(* nearest, a value halfway between two neighbours to the even one         *)
Round(num, den, digits) ==
    LET n == num * (10 ^ digits)
        q == n \div den
        r == n % den
    IN IF 2 * r < den THEN q
       ELSE IF 2 * r > den THEN q + 1
       ELSE IF q % 2 = 0 THEN q ELSE q + 1

(* the local variables of one pass of the loop over the candidate rows *)
PairLevels(on_hand, tierRow, series, mult100, pipeRow) ==
    LET tp == TierParams(tierRow)
        s == SeasonAdj(Median2(series), mult100)
        on_order == GetOr(pipeRow, 0)
    IN [avg_daily_sales |-> Median2(series),
        season_adj_sales |-> s,
        safety_stock |-> SafetyStock(s, tp),
        min_level |-> MinLevel(s, tp),
        max_level |-> MaxLevel(s, tp),
        expiry_cap |-> ExpiryCap(s, tp),
        final_max |-> FinalMax(s, tp),
        on_order |-> on_order,
        inventory_position |-> on_hand + on_order,
        requested_ship_qty |-> RequestedShipQty(FinalMax(s, tp), on_hand + on_order),
        days_of_stock |-> DaysOfStock(s, on_hand),
        priority_score |-> PriorityScore(s, on_hand)]

(* the ShipmentPlan object built for one candidate row, before allocation: *)
(* rates in ten-thousandths, levels and days of stock in hundredths.       *)
(* priority_score is the score the allocation sorts by, kept next to the   *)
(* plan in sku_requests; stored_priority_score is the rounded column.      *)
PlanItem(run_date, store_id, sku_id, on_hand, tierRow, series, mult100, pipeRow, calc_mode) ==
    LET c == PairLevels(on_hand, tierRow, series, mult100, pipeRow)
    IN [run_date |-> run_date,
        store_id |-> store_id,
        sku_id |-> sku_id,
        avg_daily_sales |-> Round(c.avg_daily_sales, 2, 4),
        season_adjusted_daily_sales |-> Round(c.season_adj_sales, RateScale, 4),
        safety_stock |-> Round(c.safety_stock, RateScale, 2),
        min_level |-> Round(c.min_level, RateScale, 2),
        max_level |-> Round(c.max_level, RateScale, 2),
        expiry_cap |-> Round(c.expiry_cap, RateScale, 2),
        final_max |-> Round(c.final_max, RateScale, 2),
        on_hand |-> on_hand,
        on_order |-> c.on_order,
        inventory_position |-> c.inventory_position,
        requested_ship_qty |-> c.requested_ship_qty,
        allocated_ship_qty |-> c.requested_ship_qty,
        priority_score |-> c.priority_score,
        stored_priority_score |-> Round(c.priority_score[1], c.priority_score[2], 4),
        days_of_stock |-> Round(c.days_of_stock[1], c.days_of_stock[2], 2),
        calculation_mode |-> calc_mode,
        gen |-> 0]

---------------------------------------------------------------------------
(* Warehouse allocation of one product *)

(* the sort placing a request ahead of the requests of equal priority *)
RECURSIVE InsertDescBeforeTies(_, _)
InsertDescBeforeTies(sorted, x) ==
    IF sorted = <<>> THEN <<x>>
    ELSE IF ~PrioLess(x.priority_score, Head(sorted).priority_score)
         THEN <<x>> \o sorted
         ELSE <<Head(sorted)>> \o InsertDescBeforeTies(Tail(sorted), x)

(* requests.sort(key=priority_score, reverse=True): stable, descending *)
RECURSIVE InsertDesc(_, _)
InsertDesc(sorted, x) ==
    IF sorted = <<>> THEN <<x>>
    ELSE IF PrioLess(Head(sorted).priority_score, x.priority_score)
         THEN <<x>> \o sorted
         ELSE <<Head(sorted)>> \o InsertDesc(Tail(sorted), x)

(* the requests left in the order they were appended *)
SortByPriorityDescSkipped(requests) == requests

RECURSIVE SortByPriorityDesc(_)
SortByPriorityDesc(requests) ==
    IF requests = <<>> THEN <<>>
    ELSE InsertDesc(SortByPriorityDesc(SubSeq(requests, 1, Len(requests) - 1)),
                    requests[Len(requests)])

(* the greedy loop handing out all that remains, without min(requested, .) *)
RECURSIVE GreedyLoopNoMin(_, _)
GreedyLoopNoMin(requests, remaining) ==
    IF requests = <<>> THEN <<>>
    ELSE LET req == Head(requests)
             allocated == remaining
         IN <<[req EXCEPT !.allocated_ship_qty = allocated]>> \o
            (IF remaining - allocated <= 0
             THEN Tail(requests)
             ELSE GreedyLoopNoMin(Tail(requests), remaining - allocated))

(* the greedy loop: allocated = min(requested, remaining); break at remaining <= 0 *)
RECURSIVE GreedyLoop(_, _)
GreedyLoop(requests, remaining) ==
    IF requests = <<>> THEN <<>>
    ELSE LET req == Head(requests)
             allocated == Min2(req.requested_ship_qty, remaining)
         IN <<[req EXCEPT !.allocated_ship_qty = allocated]>> \o
            (IF remaining - allocated <= 0
             THEN Tail(requests)
             ELSE GreedyLoop(Tail(requests), remaining - allocated))

AllocatedPrefix(requests, n) ==
    SumSeq([k \in 1..n |-> requests[k].allocated_ship_qty])

(* the last loop starting one store too late *)
RECURSIVE ZeroOutLoopOffByOne(_, _, _)
ZeroOutLoopOffByOne(requests, i, wh_available) ==
    IF i > Len(requests) THEN requests
    ELSE IF i > 2 /\ AllocatedPrefix(requests, i) > wh_available
         THEN ZeroOutLoopOffByOne(
                [requests EXCEPT ![i].allocated_ship_qty =
                    Max2(0, wh_available - AllocatedPrefix(requests, i - 1))],
                i + 1, wh_available)
         ELSE ZeroOutLoopOffByOne(requests, i + 1, wh_available)

(* the last loop left out: stores after the break keep their full request *)
ZeroOutLoopSkipped(requests, i, wh_available) == requests

(* the last loop: a store whose running total exceeds wh_available is cut *)
(* to max(0, wh_available - total of the stores before it)                *)
RECURSIVE ZeroOutLoop(_, _, _)
ZeroOutLoop(requests, i, wh_available) ==
    IF i > Len(requests) THEN requests
    ELSE IF i > 1 /\ AllocatedPrefix(requests, i) > wh_available
         THEN ZeroOutLoop(
                [requests EXCEPT ![i].allocated_ship_qty =
                    Max2(0, wh_available - AllocatedPrefix(requests, i - 1))],
                i + 1, wh_available)
         ELSE ZeroOutLoop(requests, i + 1, wh_available)

TotalRequested(requests) ==
    SumSeq([k \in 1..Len(requests) |-> requests[k].requested_ship_qty])

(* the body of "for sku_id, requests in sku_requests.items()" *)
AllocateSku(requests, wh_available) ==
    IF TotalRequested(requests) > wh_available
    THEN ZeroOutLoop(GreedyLoop(SortByPriorityDesc(requests), wh_available),
                     1, wh_available)
    ELSE requests

---------------------------------------------------------------------------
(* State *)

VARIABLES
    inventory,        \* inventory table: [AllStores \X Products -> optional quantity_on_hand]
    storeTiers,       \* store_tiers table: [Stores -> optional tier row]
    storePipeline,    \* store_pipeline table: [Stores \X Products -> optional on_order_units]
    dailyTotals,      \* per pair, the daily sold totals from the cutoff of the first day on
    seasonalityMult,  \* a hundred times the multiplier of the run dates
    snapshotDays,     \* inventory_snapshots: distinct snapshot dates since that cutoff
    snapStock,        \* per pair and sales day, the quantity of that day's snapshot, if any
    warehouseInventory, \* warehouse_inventory table: [Products -> optional wh_on_hand_units]
    clock,            \* days gone by on the wall clock since the first day
    plans,            \* committed shipment_plans rows
    nRuns,            \* number of runs started so far
    run,              \* per database session, the run it is executing
    lastCommitted,    \* shipment_plans as of the last commit
    lastUnfiltered,   \* per run date, the rows the last committed unfiltered run inserted
    prevCommit,       \* the last commit made while another run was open, if any
    reply,            \* what the request served in the last step returned, if any
    allocPc,          \* allocation harness: position
    allocIn,          \* allocation harness: the requests of one product
    allocWh,          \* allocation harness: two warehouse quantities
    allocOut,         \* allocation harness: the two allocations
    pairIn,           \* pair harness: the data read for one (store, product) pair
    pairOut           \* pair harness: what the loop body computed for it, if done

inputVars == <<inventory, storeTiers, storePipeline, dailyTotals, seasonalityMult,
               snapshotDays, snapStock, warehouseInventory, clock>>
dbVars == <<plans, nRuns, run, lastCommitted, lastUnfiltered, prevCommit>>
allocVars == <<allocPc, allocIn, allocWh, allocOut>>
pairVars == <<pairIn, pairOut>>
vars == <<inputVars, dbVars, reply, allocVars, pairVars>>

IdleRun ==
    [pc |-> "idle", run_date |-> {}, store_id |-> {}, store_sku_rows |-> <<>>,
     cache |-> {}, gen |-> 0, target |-> {}, deleted |-> {}, inserted |-> {},
     summary |-> {}, clash |-> FALSE]

Active(r) == run[r].pc # "idle"

---------------------------------------------------------------------------
(* The run: run_replenishment_calculation in a session of its own *)

(* rows of store_sku_query: tracked products of every store but the warehouse *)
CandidateRows(store_id) ==
    {<<s, p, GetOr(inventory[s, p], 0)>> : <<s, p>> \in
        {sp \in Stores \X Products :
            /\ inventory[sp[1], sp[2]] # {}
            /\ sp[1] # WAREHOUSE_STORE_ID
            /\ (store_id = {} \/ store_id = {sp[1]})}}

(* the part of a sales history on or after cutoff = date.today() - 28:    *)
(* entry k of a history is dated k - 1 days after the cutoff of the first  *)
(* day, and the cutoff moves on with the clock                             *)
SalesWindow(q) == SubSeq(q, clock + 1, Len(q))

(* get_snapshot_days_available: the distinct snapshot dates on or after    *)
(* the cutoff                                                              *)
SnapshotDaysAvailable ==
    snapshotDays -
        Cardinality({k \in 1..clock :
                        \E sp \in Stores \X Products :
                            k <= Len(snapStock[sp]) /\ snapStock[sp][k] # {}})

(* wh_cache filled from the warehouse_inventory table *)
WhCacheFromWarehouseInventory == [p \in Products |-> warehouseInventory[p]]

(* wh_cache: the inventory rows of the warehouse store *)
WhCache == [p \in Products |-> inventory[WAREHOUSE_STORE_ID, p]]

(* what the run reads ahead of its loop: snapshot count and mode, the      *)
(* multiplier, the tier, pipeline and warehouse caches, the sales cache    *)
Preload ==
    LET calc_mode == CalcMode(SnapshotDaysAvailable)
    IN [snapshot_days |-> SnapshotDaysAvailable,
        calc_mode |-> calc_mode,
        seasonality_multiplier |-> seasonalityMult,
        tier_cache |-> storeTiers,
        pipeline_cache |-> storePipeline,
        wh_cache |-> WhCache,
        sales_cache |->
            [sp \in Stores \X Products |->
                IF calc_mode = "snapshot"
                THEN SnapshotSeries(SalesWindow(dailyTotals[sp]), SalesWindow(snapStock[sp]))
                ELSE FallbackSeries(SalesWindow(dailyTotals[sp]))]]

(* a missing warehouse row read as one unit *)
WhAvailableOneIfMissing(wh_cache, sku_id) == GetOr(wh_cache[sku_id], 1)

(* wh_cache.get(sku_id, 0) *)
WhAvailable(wh_cache, sku_id) == GetOr(wh_cache[sku_id], 0)

(* the handler is entered and performs its reads; the candidate rows come  *)
(* back in an order the query does not fix                                 *)
StartRun(r, d, f, rows) ==
    /\ run[r].pc = "idle"
    /\ \A o \in Sessions : o < r => Active(o)
    /\ nRuns < MaxRuns
    /\ rows \in Perms(CandidateRows(f))
    /\ nRuns' = nRuns + 1
    /\ run' = [run EXCEPT ![r] =
                 [IdleRun EXCEPT !.pc = "read", !.run_date = {d}, !.store_id = f,
                                 !.store_sku_rows = rows, !.cache = {Preload},
                                 !.gen = nRuns + 1]]
    /\ reply' = {}
    /\ UNCHANGED <<inputVars, plans, lastCommitted, lastUnfiltered, prevCommit, allocVars, pairVars>>

(* delete_q without its store_id condition *)
DeleteTargetWholeDate(rows, run_date, store_id) ==
    {x \in rows : {x.run_date} = run_date}

(* delete_q without its run_date condition *)
DeleteTargetAnyDate(rows, run_date, store_id) ==
    {x \in rows : store_id = {} \/ store_id = {x.store_id}}

(* rows matched by delete_q *)
DeleteTarget(rows, run_date, store_id) ==
    {x \in rows : {x.run_date} = run_date /\ (store_id = {} \/ store_id = {x.store_id})}

(* rows another open transaction has deleted and still holds locked *)
LockedByOthers(r) ==
    UNION {run[o].deleted : o \in {o \in Sessions : o # r /\ Active(o)}}

(* the DELETE statement committed on its own instead of inside the transaction *)
ExecDeleteAutocommit(r) ==
    /\ run[r].pc = "read"
    /\ LET target == DeleteTarget(plans, run[r].run_date, run[r].store_id)
       IN /\ target \cap LockedByOthers(r) = {}
          /\ plans' = plans \ target
          /\ run' = [run EXCEPT ![r].pc = "deleted"]
    /\ reply' = {}
    /\ UNCHANGED <<inputVars, nRuns, lastCommitted, lastUnfiltered, prevCommit, allocVars, pairVars>>

(* the DELETE statement finds none of its rows locked and completes *)
ExecDelete(r) ==
    /\ run[r].pc = "read"
    /\ LET target == DeleteTarget(plans, run[r].run_date, run[r].store_id)
       IN /\ target \cap LockedByOthers(r) = {}
          /\ run' = [run EXCEPT ![r].pc = "deleted", ![r].deleted = target]
    /\ reply' = {}
    /\ UNCHANGED <<inputVars, plans, nRuns, lastCommitted, lastUnfiltered, prevCommit, allocVars, pairVars>>

(* the DELETE statement meets a row locked by another transaction and waits *)
DeleteBlocked(r) ==
    /\ run[r].pc = "read"
    /\ LET target == DeleteTarget(plans, run[r].run_date, run[r].store_id)
       IN /\ target \cap LockedByOthers(r) # {}
          /\ run' = [run EXCEPT ![r].pc = "delwait", ![r].target = target]
    /\ reply' = {}
    /\ UNCHANGED <<inputVars, plans, nRuns, lastCommitted, lastUnfiltered, prevCommit, allocVars, pairVars>>

(* the lock holders have ended: the statement deletes the rows of its      *)
(* snapshot that still exist                                               *)
DeleteResume(r) ==
    /\ run[r].pc = "delwait"
    /\ (run[r].target \cap plans) \cap LockedByOthers(r) = {}
    /\ run' = [run EXCEPT ![r].pc = "deleted", ![r].target = {},
                          ![r].deleted = run[r].target \cap plans]
    /\ reply' = {}
    /\ UNCHANGED <<inputVars, plans, nRuns, lastCommitted, lastUnfiltered, prevCommit, allocVars, pairVars>>

(* the loop "for row in store_sku_rows": one plan per row, zero requests skipped *)
PlanItems(c, rows, run_date) ==
    SelectSeq(
        [k \in 1..Len(rows) |->
            PlanItem(run_date, rows[k][1], rows[k][2], rows[k][3],
                     c.tier_cache[rows[k][1]], c.sales_cache[rows[k][1], rows[k][2]],
                     c.seasonality_multiplier, c.pipeline_cache[rows[k][1], rows[k][2]],
                     c.calc_mode)],
        LAMBDA x : x.requested_ship_qty # 0)

(* sku_requests[sku_id]: the plans of one product in insertion order *)
SkuRequests(plan_items, sku_id) == SelectSeq(plan_items, LAMBDA x : x.sku_id = sku_id)

(* plan_items after the warehouse allocation loop *)
ComputePlans(c, rows, run_date) ==
    LET plan_items == PlanItems(c, rows, run_date)
    IN UNION {SeqToSet(AllocateSku(SkuRequests(plan_items, p), WhAvailable(c.wh_cache, p))) :
                p \in Products}

(* the caches the loop of run r works from, read again when it starts *)
RunCacheReread(r) == Preload

(* the caches the loop of run r works from *)
RunCache(r) == CHOOSE c \in run[r].cache : TRUE

RECURSIVE SumRequested(_)
SumRequested(S) ==
    IF S = {} THEN 0
    ELSE LET x == CHOOSE y \in S : TRUE IN x.requested_ship_qty + SumRequested(S \ {x})

(* exceptions_count over plan_items; days_of_stock is in hundredths *)
ExceptionsCount(plan_items) ==
    Cardinality({x \in plan_items :
                    \/ x.allocated_ship_qty < x.requested_ship_qty
                    \/ x.on_hand < 0
                    \/ x.days_of_stock > 120 * 100})

(* the dictionary the run returns, from the plans it flushed *)
RunSummary(c, run_date, plan_items) ==
    [run_date |-> run_date,
     calculation_mode |-> c.calc_mode,
     snapshot_days_available |-> c.snapshot_days,
     total_items |-> Cardinality(plan_items),
     stores_processed |-> Cardinality({x.store_id : x \in plan_items}),
     warehouse_allocations |->
         Cardinality({p \in {x.sku_id : x \in plan_items} :
                         SumRequested(RowsOfSku(plan_items, p)) >
                             WhAvailable(c.wh_cache, p)}),
     exceptions_count |-> ExceptionsCount(plan_items),
     total_stores |-> Cardinality({x.store_id : x \in plan_items}),
     total_skus |-> Cardinality({x.sku_id : x \in plan_items}),
     total_requested_units |-> SumRequested(plan_items),
     total_allocated_units |-> SumSet(plan_items)]

(* the flush writing its rows where every session sees them at once *)
FlushPlansAutocommit(r) ==
    /\ run[r].pc = "deleted"
    /\ plans' = plans \cup
                  {[x EXCEPT !.gen = run[r].gen] :
                      x \in ComputePlans(RunCache(r), run[r].store_sku_rows,
                                         GetOr(run[r].run_date, 0))}
    /\ run' = [run EXCEPT ![r].pc = "flushed",
                 ![r].summary =
                    {RunSummary(RunCache(r), GetOr(run[r].run_date, 0),
                                ComputePlans(RunCache(r), run[r].store_sku_rows,
                                             GetOr(run[r].run_date, 0)))}]
    /\ reply' = {}
    /\ UNCHANGED <<inputVars, nRuns, lastCommitted, lastUnfiltered, prevCommit, allocVars, pairVars>>

(* per-pair computation, allocation, add_all and flush: the rows are       *)
(* inserted in the session's open transaction                              *)
FlushPlans(r) ==
    /\ run[r].pc = "deleted"
    /\ run' = [run EXCEPT ![r].pc = "flushed",
                 ![r].inserted =
                    {[x EXCEPT !.gen = run[r].gen] :
                        x \in ComputePlans(RunCache(r), run[r].store_sku_rows,
                                           GetOr(run[r].run_date, 0))},
                 ![r].summary =
                    {RunSummary(RunCache(r), GetOr(run[r].run_date, 0),
                                ComputePlans(RunCache(r), run[r].store_sku_rows,
                                             GetOr(run[r].run_date, 0)))}]
    /\ reply' = {}
    /\ UNCHANGED <<inputVars, plans, nRuns, lastCommitted, lastUnfiltered, prevCommit, allocVars, pairVars>>

(* the run rn executed alone on a table: its delete, then its inserts *)
SerialRun(table, rn) ==
    (table \ DeleteTarget(table, rn.run_date, rn.store_id)) \cup
        {[x EXCEPT !.gen = rn.gen] :
            x \in ComputePlans(CHOOSE c \in rn.cache : TRUE, rn.store_sku_rows,
                               GetOr(rn.run_date, 0))}

(* shipment_plans rows without the identity the insert gave them *)
Strip(rows) == {[x EXCEPT !.gen = 0] : x \in rows}

(* get_db: the handler returned, the session's transaction is committed.  *)
(* Kept for the properties: the runs still open for the same run date are *)
(* marked, and a commit made while another run is open is remembered with *)
(* the table it was applied to.                                            *)
Commit(r) ==
    /\ run[r].pc = "flushed"
    /\ plans' = (plans \ run[r].deleted) \cup run[r].inserted
    /\ lastCommitted' = plans'
    /\ lastUnfiltered' =
         IF run[r].store_id = {}
         THEN [lastUnfiltered EXCEPT ![GetOr(run[r].run_date, 0)] = {Strip(run[r].inserted)}]
         ELSE lastUnfiltered
    /\ run' = [o \in Sessions |->
                 IF o = r THEN IdleRun
                 ELSE IF Active(o) /\ run[o].run_date = run[r].run_date
                      THEN [run[o] EXCEPT !.clash = TRUE]
                      ELSE run[o]]
    /\ prevCommit' =
         IF \E o \in Sessions : o # r /\ Active(o)
         THEN {[base |-> plans, run |-> run[r], started |-> nRuns]}
         ELSE prevCommit
    /\ reply' = {[op |-> "run", result |-> "committed", at |-> "flushed",
                  run_date |-> GetOr(run[r].run_date, 0), store_id |-> run[r].store_id,
                  gen |-> run[r].gen, summary |-> run[r].summary]}
    /\ UNCHANGED <<inputVars, nRuns, allocVars, pairVars>>

(* get_db: the handler raised or was cancelled, the transaction is rolled back *)
Fail(r) ==
    /\ Active(r)
    /\ run' = [run EXCEPT ![r] = IdleRun]
    /\ reply' = {[op |-> "run", result |-> "failed", at |-> run[r].pc,
                  run_date |-> GetOr(run[r].run_date, 0), store_id |-> run[r].store_id,
                  gen |-> run[r].gen, summary |-> {}]}
    /\ UNCHANGED <<inputVars, plans, nRuns, lastCommitted, lastUnfiltered, prevCommit, allocVars, pairVars>>

---------------------------------------------------------------------------
(* Store tier configuration *)

(* get_store_tier_params: the store's row, or the Tier B values *)
GetStoreTierParams(store_id) ==
    IF storeTiers[store_id] # {}
    THEN LET tier == CHOOSE t \in storeTiers[store_id] : TRUE
         IN [tier |-> tier.tier, safety_days |-> tier.safety_days,
             target_cover_days |-> tier.target_cover_days,
             expiry_window_days |-> tier.expiry_window_days]
    ELSE [tier |-> "B", safety_days |-> 3, target_cover_days |-> 7,
          expiry_window_days |-> 60]

(* upsert_store_tier with the body of POST /store-tiers, which carries     *)
(* every field: the store's row is updated field by field, or created      *)
UpsertStoreTier(store_id, data) ==
    /\ storeTiers' =
         [storeTiers EXCEPT ![store_id] =
            IF storeTiers[store_id] # {}
            THEN {[tier |-> data.tier, safety_days |-> data.safety_days,
                   target_cover_days |-> data.target_cover_days,
                   expiry_window_days |-> data.expiry_window_days]}
            ELSE {data}]
    /\ reply' = {[op |-> "upsert_store_tier", store_id |-> store_id, status |-> "ok"]}
    /\ UNCHANGED <<inventory, storePipeline, dailyTotals, seasonalityMult, snapshotDays,
                   snapStock, warehouseInventory, clock, dbVars, allocVars, pairVars>>

(* delete_store_tier: result.rowcount > 0 tells whether a row was there *)
DeleteStoreTier(store_id) ==
    /\ storeTiers' = [storeTiers EXCEPT ![store_id] = {}]
    /\ reply' = {[op |-> "delete_store_tier", store_id |-> store_id,
                  deleted |-> storeTiers[store_id] # {}]}
    /\ UNCHANGED <<inventory, storePipeline, dailyTotals, seasonalityMult, snapshotDays,
                   snapStock, warehouseInventory, clock, dbVars, allocVars, pairVars>>

---------------------------------------------------------------------------
(* Pipeline and warehouse inventory tables, each request in a session of   *)
(* its own that is committed when the handler returns                      *)

(* update_pipeline with one item: the pair's row is updated or created *)
UpdatePipeline(store_id, sku_id, on_order_units) ==
    /\ storePipeline' = [storePipeline EXCEPT ![store_id, sku_id] = {on_order_units}]
    /\ reply' = {[op |-> "update_pipeline",
                  updated |-> IF storePipeline[store_id, sku_id] # {} THEN 1 ELSE 0,
                  created |-> IF storePipeline[store_id, sku_id] # {} THEN 0 ELSE 1]}
    /\ UNCHANGED <<inventory, storeTiers, dailyTotals, seasonalityMult, snapshotDays,
                   snapStock, warehouseInventory, clock, dbVars, allocVars, pairVars>>

(* update_warehouse_inventory with one item: the product's row of the      *)
(* warehouse_inventory table is updated or created                         *)
UpdateWarehouseInventory(sku_id, wh_on_hand_units) ==
    /\ warehouseInventory' = [warehouseInventory EXCEPT ![sku_id] = {wh_on_hand_units}]
    /\ reply' = {[op |-> "update_warehouse_inventory",
                  updated |-> IF warehouseInventory[sku_id] # {} THEN 1 ELSE 0,
                  created |-> IF warehouseInventory[sku_id] # {} THEN 0 ELSE 1]}
    /\ UNCHANGED <<inventory, storeTiers, storePipeline, dailyTotals, seasonalityMult,
                   snapshotDays, snapStock, clock, dbVars, allocVars, pairVars>>

---------------------------------------------------------------------------
(* GET /data-readiness *)

GetDataReadiness(today) ==
    /\ reply' = {[op |-> "data_readiness", today |-> today,
                  result |-> DataReadiness(SnapshotDaysAvailable, today)]}
    /\ reply' # reply
    /\ UNCHANGED <<inputVars, dbVars, allocVars, pairVars>>

---------------------------------------------------------------------------
(* Readers: the one statement of latest plan / picklist / exceptions that  *)
(* selects the rows of a run date                                          *)

RowsOfDate(rows, d) == {x \in rows : x.run_date = d}

ReaderQuery(d) ==
    /\ reply' = {[op |-> "read", run_date |-> d, rows |-> RowsOfDate(plans, d)]}
    /\ reply' # reply
    /\ UNCHANGED <<inputVars, dbVars, allocVars, pairVars>>

---------------------------------------------------------------------------
(* Reporting views, each served from the committed table *)

(* select(func.max(ShipmentPlan.run_date)): none on an empty table *)
LatestRunDate(rows) ==
    IF rows = {} THEN {}
    ELSE {CHOOSE d \in {x.run_date : x \in rows} :
              \A x \in rows : x.run_date <= d}

(* the orders in which ORDER BY priority_score DESC may return a row set *)
OrderedByPriority(S) ==
    {q \in Perms(S) :
        \A k \in 1..(Len(q) - 1) :
            q[k].stored_priority_score >= q[k + 1].stored_priority_score}

(* the WHERE clause of the exceptions query; days_of_stock is in hundredths *)
FlaggedRows(rows, d) ==
    {x \in rows :
        /\ x.run_date = d
        /\ \/ x.on_hand < 0
           \/ x.days_of_stock > 120 * 100
           \/ x.allocated_ship_qty < x.requested_ship_qty}

(* the chain testing the warehouse shortage before the other two *)
ExceptionTypeShortageFirst(x) ==
    IF x.allocated_ship_qty < x.requested_ship_qty THEN "warehouse_shortage"
    ELSE IF x.on_hand < 0 THEN "negative_stock"
    ELSE IF x.days_of_stock > 120 * 100 THEN "overstock"
    ELSE "unknown"

(* the if / elif chain that types a fetched row *)
ExceptionType(x) ==
    IF x.on_hand < 0 THEN "negative_stock"
    ELSE IF x.days_of_stock > 120 * 100 THEN "overstock"
    ELSE IF x.allocated_ship_qty < x.requested_ship_qty THEN "warehouse_shortage"
    ELSE "unknown"

ExceptionItem(x) ==
    [store_id |-> x.store_id, sku_id |-> x.sku_id,
     exception_type |-> ExceptionType(x),
     requested_qty |-> x.requested_ship_qty, allocated_qty |-> x.allocated_ship_qty,
     days_of_stock |-> x.days_of_stock, priority_score |-> x.stored_priority_score]

(* get_exceptions(run_date): arg is the optional run_date of the request; *)
(* the reply keeps the fetched rows next to the items built from them      *)
GetExceptions(arg) ==
    /\ LET run_date == IF arg = {} THEN LatestRunDate(plans) ELSE arg
       IN IF run_date = {}
          THEN reply' = {[op |-> "exceptions", arg |-> arg, run_date |-> {},
                          rows |-> <<>>, items |-> <<>>, total_exceptions |-> 0]}
          ELSE \E rows \in OrderedByPriority(FlaggedRows(plans, GetOr(run_date, 0))) :
                 reply' = {[op |-> "exceptions", arg |-> arg, run_date |-> run_date,
                            rows |-> rows,
                            items |-> [k \in 1..Len(rows) |-> ExceptionItem(rows[k])],
                            total_exceptions |-> Len(rows)]}
    /\ UNCHANGED <<inputVars, dbVars, allocVars, pairVars>>

LatestItem(x) ==
    [store_id |-> x.store_id, sku_id |-> x.sku_id,
     requested_ship_qty |-> x.requested_ship_qty,
     allocated_ship_qty |-> x.allocated_ship_qty,
     priority_score |-> x.stored_priority_score,
     wh_on_hand |-> GetOr(inventory[WAREHOUSE_STORE_ID, x.sku_id], 0)]

(* get_latest_shipment_plan(store_ids, sku_ids): an empty list of ids is   *)
(* no filter                                                               *)
GetLatestShipmentPlan(store_ids, sku_ids) ==
    /\ LET latest_date == LatestRunDate(plans)
       IN IF latest_date = {}
          THEN reply' = {[op |-> "latest", store_ids |-> store_ids, sku_ids |-> sku_ids,
                          run_date |-> {}, calculation_mode |-> "none",
                          rows |-> <<>>, items |-> <<>>]}
          ELSE \E rows \in OrderedByPriority(RowsOfDate(plans, GetOr(latest_date, 0))) :
                 LET kept == SelectSeq(rows, LAMBDA x :
                                 /\ store_ids = {} \/ x.store_id \in store_ids
                                 /\ sku_ids = {} \/ x.sku_id \in sku_ids)
                 IN reply' = {[op |-> "latest", store_ids |-> store_ids,
                               sku_ids |-> sku_ids, run_date |-> latest_date,
                               calculation_mode |->
                                   IF rows # <<>> THEN rows[1].calculation_mode ELSE "none",
                               rows |-> kept,
                               items |-> [k \in 1..Len(kept) |-> LatestItem(kept[k])]]}
    /\ UNCHANGED <<inputVars, dbVars, allocVars, pairVars>>

(* the picklist query groups the rows of the date with a positive          *)
(* allocation by product: the total per product                            *)
PicklistItems(rows, d) ==
    LET picked == {x \in RowsOfDate(rows, d) : x.allocated_ship_qty > 0}
    IN {[sku_id |-> p, total_allocated_qty |-> SumSet(RowsOfSku(picked, p))] :
           p \in {x.sku_id : x \in picked}}

(* get_warehouse_picklist(run_date) *)
GetWarehousePicklist(arg) ==
    /\ LET run_date == IF arg = {} THEN LatestRunDate(plans) ELSE arg
       IN IF run_date = {}
          THEN reply' = {[op |-> "picklist", arg |-> arg, run_date |-> {},
                          items |-> {}, total_units |-> 0]}
          ELSE reply' = {[op |-> "picklist", arg |-> arg, run_date |-> run_date,
                          items |-> PicklistItems(plans, GetOr(run_date, 0)),
                          total_units |->
                              SumSet({x \in RowsOfDate(plans, GetOr(run_date, 0)) :
                                         x.allocated_ship_qty > 0})]}
    /\ UNCHANGED <<inputVars, dbVars, allocVars, pairVars>>

---------------------------------------------------------------------------
(* Inputs *)

TierA ==
    [tier |-> "A", safety_days |-> 4, target_cover_days |-> 10, expiry_window_days |-> 90]

(* a tier whose expiry window is shorter than its cover *)
TierShortExpiry ==
    [tier |-> "B", safety_days |-> 1, target_cover_days |-> 2, expiry_window_days |-> 5]

(* what the stored data holds for one (store, product) pair *)
PairProfiles ==
    {[on_hand |-> -1, totals |-> <<>>, on_order |-> {}],
     [on_hand |-> 0, totals |-> <<0>>, on_order |-> {}],
     [on_hand |-> 1, totals |-> <<1, 2>>, on_order |-> {}],
     [on_hand |-> 1, totals |-> <<0, 1>>, on_order |-> {1}]}

WhVals == {{}} \cup {{q} : q \in -1..MaxWh}

(* store 1 is configured as a Tier A store, store 2 has no tier row *)
TierChoices == {[s \in Stores |-> IF s = 1 THEN {TierA} ELSE {}]}

AllocOff ==
    /\ allocPc = "off"
    /\ allocIn = <<>>
    /\ allocWh = <<0, 0>>
    /\ allocOut = <<>>

PairOff ==
    /\ pairIn = {}
    /\ pairOut = {}

DbInit ==
    /\ plans = {}
    /\ nRuns = 0
    /\ run = [r \in Sessions |-> IdleRun]
    /\ lastCommitted = {}
    /\ lastUnfiltered = [d \in Dates |-> {}]
    /\ prevCommit = {}
    /\ reply = {}

InputsFrom(profiles, whs, tiers) ==
    \E prof \in [Stores \X Products -> profiles], wh \in [Products -> whs] :
        /\ inventory = [sp \in AllStores \X Products |->
                          IF sp[1] = WAREHOUSE_STORE_ID THEN wh[sp[2]]
                          ELSE {prof[sp[1], sp[2]].on_hand}]
        /\ storePipeline = [sp \in Stores \X Products |-> prof[sp[1], sp[2]].on_order]
        /\ dailyTotals = [sp \in Stores \X Products |-> prof[sp[1], sp[2]].totals]
        /\ storeTiers \in tiers
        /\ seasonalityMult = 10
        /\ snapshotDays = 0
        /\ warehouseInventory = [p \in Products |-> {}]
        /\ clock = 0
        /\ snapStock = [sp \in Stores \X Products |->
                          [k \in 1..Len(prof[sp[1], sp[2]].totals) |-> {}]]

Init ==
    /\ InputsFrom(PairProfiles, WhVals, TierChoices)
    /\ DbInit
    /\ AllocOff
    /\ PairOff

(* one session at a time: runs follow one another *)
Next ==
    \/ \E d \in Dates, f \in {{}} \cup {{s} : s \in Stores} :
         \E rows \in Perms(CandidateRows(f)) : StartRun(1, d, f, rows)
    \/ ExecDelete(1)
    \/ FlushPlans(1)
    \/ Commit(1)
    \/ Fail(1)

Spec == Init /\ [][Next]_vars

(* concurrent sessions and readers over one stored state: with one unit   *)
(* on hand and one on order, the Tier A store requests a unit and the      *)
(* store without a tier row requests nothing                               *)
ConcProfiles ==
    {[on_hand |-> 1, totals |-> <<0, 1>>, on_order |-> {1}]}

ConcWhVals == {{1}}

InitConc ==
    /\ InputsFrom(ConcProfiles, ConcWhVals, TierChoices)
    /\ DbInit
    /\ AllocOff
    /\ PairOff

NextConc ==
    \/ \E r \in Sessions, d \in Dates, f \in {{}} \cup {{s} : s \in Stores} :
         \E rows \in Perms(CandidateRows(f)) : StartRun(r, d, f, rows)
    \/ \E r \in Sessions : ExecDelete(r)
    \/ \E r \in Sessions : DeleteBlocked(r)
    \/ \E r \in Sessions : DeleteResume(r)
    \/ \E r \in Sessions : FlushPlans(r)
    \/ \E r \in Sessions : Commit(r)
    \/ \E r \in Sessions : Fail(r)
    \/ \E d \in Dates : ReaderQuery(d)

SpecConc == InitConc /\ [][NextConc]_vars

(* tier configuration requests between unrestricted runs for one date,    *)
(* one request at a time: the pairs sell 1 and 2 units a day, store 2      *)
(* starts with a tier row and store 1 without                              *)
TierProfiles ==
    {[on_hand |-> 1, totals |-> <<1, 2>>, on_order |-> {}]}

TierStart == {[s \in Stores |-> IF s = 2 THEN {TierShortExpiry} ELSE {}]}

InitTier ==
    /\ InputsFrom(TierProfiles, ConcWhVals, TierStart)
    /\ DbInit
    /\ AllocOff
    /\ PairOff

NextTier ==
    \/ \E rows \in Perms(CandidateRows({})) : StartRun(1, 1, {}, rows)
    \/ ExecDelete(1)
    \/ FlushPlans(1)
    \/ Commit(1)
    \/ Fail(1)
    \/ /\ ~Active(1)
       /\ \E s \in Stores, data \in {TierA, TierShortExpiry} :
             UpsertStoreTier(s, data)
    \/ /\ ~Active(1)
       /\ \E s \in Stores : DeleteStoreTier(s)

SpecTier == InitTier /\ [][NextTier]_vars

(* readiness requests and unrestricted runs over a snapshot history of 0   *)
(* to MaxSnapshotDays distinct dates; the pairs sold 1 and 2 units on two  *)
(* days, which have snapshots with stock or none                           *)
SnapChoices == {<<{}, {}>>, <<{1}, {1}>>, <<{0}, {1}>>}

SnapDaysOf(snaps) == Cardinality({k \in 1..Len(snaps) : snaps[k] # {}})

InitMode ==
    /\ inventory = [sp \in AllStores \X Products |-> {1}]
    /\ storeTiers = [st \in Stores |-> {}]
    /\ storePipeline = [sp \in Stores \X Products |-> {}]
    /\ dailyTotals = [sp \in Stores \X Products |-> <<1, 2>>]
    /\ seasonalityMult = 100
    /\ warehouseInventory = [p \in Products |-> {}]
    /\ clock = 0
    /\ snapshotDays \in 0..MaxSnapshotDays
    /\ \E snaps \in SnapChoices :
          /\ SnapDaysOf(snaps) <= snapshotDays
          /\ snapStock = [sp \in Stores \X Products |-> snaps]
    /\ DbInit
    /\ AllocOff
    /\ PairOff

NextMode ==
    \/ \E rows \in Perms(CandidateRows({})) : StartRun(1, 1, {}, rows)
    \/ ExecDelete(1)
    \/ FlushPlans(1)
    \/ Commit(1)
    \/ Fail(1)
    \/ \E today \in Dates : GetDataReadiness(today)

SpecMode == InitMode /\ [][NextMode]_vars

(* the reporting views between unrestricted runs, one request at a time.   *)
(* Both stores have a tier with a long cover, so that a pair holding 13    *)
(* units and selling 1 a day at a multiplier of 0.1 has 130 days of stock  *)
(* and still requests units.                                               *)
TierLongCover ==
    [tier |-> "A", safety_days |-> 1, target_cover_days |-> 200, expiry_window_days |-> 400]

ReadProfiles ==
    {[on_hand |-> -1, totals |-> <<>>, on_order |-> {}],
     [on_hand |-> 1, totals |-> <<1, 2>>, on_order |-> {}],
     [on_hand |-> 13, totals |-> <<1>>, on_order |-> {}]}

ReadWhVals == {{1}, {40}}

InitRead ==
    /\ InputsFrom(ReadProfiles, ReadWhVals, {[st \in Stores |-> {TierLongCover}]})
    /\ DbInit
    /\ AllocOff
    /\ PairOff

NextRead ==
    \/ \E d \in Dates : \E rows \in Perms(CandidateRows({})) : StartRun(1, d, {}, rows)
    \/ ExecDelete(1)
    \/ FlushPlans(1)
    \/ Commit(1)
    \/ Fail(1)
    \/ /\ ~Active(1)
       /\ \E arg \in {{}} \cup {{d} : d \in Dates} : GetExceptions(arg)
    \/ /\ ~Active(1)
       /\ \E store_ids \in {{}} \cup {{st} : st \in Stores}, sku_ids \in SUBSET Products :
             GetLatestShipmentPlan(store_ids, sku_ids)
    \/ /\ ~Active(1)
       /\ \E arg \in {{}} \cup {{d} : d \in Dates} : GetWarehousePicklist(arg)

SpecRead == InitRead /\ [][NextRead]_vars

(* unrestricted runs for one date while other sessions change the tier of *)
(* store 1 and the pipeline of store 2 at any moment, also during a run:   *)
(* each pair holds 1 unit and sold 1 and 2 units on two days               *)
InitSnap ==
    /\ InputsFrom(TierProfiles, ConcWhVals, {[st \in Stores |-> {}]})
    /\ DbInit
    /\ AllocOff
    /\ PairOff

NextSnap ==
    \/ \E rows \in Perms(CandidateRows({})) : StartRun(1, 1, {}, rows)
    \/ ExecDelete(1)
    \/ FlushPlans(1)
    \/ Commit(1)
    \/ Fail(1)
    \/ UpsertStoreTier(1, TierA)
    \/ DeleteStoreTier(1)
    \/ \E p \in Products : UpdatePipeline(2, p, 2)

SpecSnap == InitSnap /\ [][NextSnap]_vars

(* unrestricted runs on successive calendar days over one stored state:   *)
(* each pair holds 1 unit and sold 2 units on the first day of the window  *)
(* of the first calendar day and 1 unit on the next; either there is no    *)
(* snapshot, or 28 snapshot dates since that first day, both sales days    *)
(* among them; the warehouse covers every request                          *)
ClockProfiles == {[on_hand |-> 1, totals |-> <<2, 1>>, on_order |-> {}]}

AmpleWhVals == {{40}}

InitClock ==
    /\ \E prof \in [Stores \X Products -> ClockProfiles], wh \in [Products -> AmpleWhVals] :
          /\ inventory = [sp \in AllStores \X Products |->
                            IF sp[1] = WAREHOUSE_STORE_ID THEN wh[sp[2]]
                            ELSE {prof[sp[1], sp[2]].on_hand}]
          /\ storePipeline = [sp \in Stores \X Products |-> prof[sp[1], sp[2]].on_order]
          /\ dailyTotals = [sp \in Stores \X Products |-> prof[sp[1], sp[2]].totals]
    /\ storeTiers = [st \in Stores |-> {}]
    /\ seasonalityMult = 10
    /\ \/ /\ snapshotDays = 0
          /\ snapStock = [sp \in Stores \X Products |-> <<{}, {}>>]
       \/ /\ snapshotDays = 28
          /\ snapStock = [sp \in Stores \X Products |-> <<{1}, {1}>>]
    /\ warehouseInventory = [p \in Products |-> {}]
    /\ clock = 0
    /\ DbInit
    /\ AllocOff
    /\ PairOff

(* midnight: date.today() is a day later *)
Tick ==
    /\ clock < MaxClock
    /\ clock' = clock + 1
    /\ reply' = {}
    /\ UNCHANGED <<inventory, storeTiers, storePipeline, dailyTotals, seasonalityMult,
                   snapshotDays, snapStock, warehouseInventory, dbVars, allocVars, pairVars>>

NextClock ==
    \/ \E d \in Dates : \E rows \in Perms(CandidateRows({})) : StartRun(1, d, {}, rows)
    \/ ExecDelete(1)
    \/ FlushPlans(1)
    \/ Commit(1)
    \/ Fail(1)
    \/ Tick

SpecClock == InitClock /\ [][NextClock]_vars

(* unrestricted runs while another session updates the warehouse_inventory *)
(* table at any moment: store 1 holds 1 unit and store 2 none, both sold 1 *)
(* and 2 units on two days, and the inventory row of the warehouse store   *)
(* holds 1 unit, so the product is rationed between two stores of          *)
(* different priority                                                      *)
InitWh ==
    /\ inventory = [sp \in AllStores \X Products |->
                      IF sp[1] = WAREHOUSE_STORE_ID THEN {1}
                      ELSE IF sp[1] = 1 THEN {1} ELSE {0}]
    /\ storePipeline = [sp \in Stores \X Products |-> {}]
    /\ dailyTotals = [sp \in Stores \X Products |-> <<1, 2>>]
    /\ storeTiers = [st \in Stores |-> {}]
    /\ seasonalityMult = 10
    /\ snapshotDays = 0
    /\ snapStock = [sp \in Stores \X Products |-> <<{}, {}>>]
    /\ warehouseInventory = [p \in Products |-> {}]
    /\ clock = 0
    /\ DbInit
    /\ AllocOff
    /\ PairOff

NextWh ==
    \/ \E d \in Dates : \E rows \in Perms(CandidateRows({})) : StartRun(1, d, {}, rows)
    \/ ExecDelete(1)
    \/ FlushPlans(1)
    \/ Commit(1)
    \/ Fail(1)
    \/ \E p \in Products, q \in 0..MaxWh : UpdateWarehouseInventory(p, q)

SpecWh == InitWh /\ [][NextWh]_vars

(* two sessions running unrestricted runs for one date while the          *)
(* exceptions of that date are requested: the warehouse holds nothing, so  *)
(* the unit the Tier A store requests is a shortage                        *)
ShortWhVals == {{0}}

InitConcRead ==
    /\ InputsFrom(ConcProfiles, ShortWhVals, TierChoices)
    /\ DbInit
    /\ AllocOff
    /\ PairOff

NextConcRead ==
    \/ \E r \in Sessions : \E rows \in Perms(CandidateRows({})) : StartRun(r, 1, {}, rows)
    \/ \E r \in Sessions : ExecDelete(r)
    \/ \E r \in Sessions : DeleteBlocked(r)
    \/ \E r \in Sessions : DeleteResume(r)
    \/ \E r \in Sessions : FlushPlans(r)
    \/ \E r \in Sessions : Commit(r)
    \/ \E r \in Sessions : Fail(r)
    \/ \E arg \in {{}, {1}} : GetExceptions(arg)

SpecConcRead == InitConcRead /\ [][NextConcRead]_vars

---------------------------------------------------------------------------
(* The allocation of one product as a function of the warehouse quantity:  *)
(* a list of requests is allocated under two warehouse quantities          *)

AllocRequest(k, qty, prio) ==
    [store_id |-> k, requested_ship_qty |-> qty, allocated_ship_qty |-> qty,
     priority_score |-> <<prio, 1>>]

AllocInputs ==
    UNION {{[k \in 1..n |-> AllocRequest(k, qp[k][1], qp[k][2])] :
                qp \in [1..n -> (1..MaxQty) \X (1..MaxPrio)]} : n \in 1..MaxRequests}

DbOff ==
    /\ inventory = [sp \in AllStores \X Products |-> {}]
    /\ storeTiers = [s \in Stores |-> {}]
    /\ storePipeline = [sp \in Stores \X Products |-> {}]
    /\ dailyTotals = [sp \in Stores \X Products |-> <<>>]
    /\ seasonalityMult = 100
    /\ snapshotDays = 0
    /\ snapStock = [sp \in Stores \X Products |-> <<>>]
    /\ warehouseInventory = [p \in Products |-> {}]
    /\ clock = 0
    /\ DbInit

InitAlloc ==
    /\ DbOff
    /\ allocPc = "start"
    /\ allocIn \in AllocInputs
    /\ allocWh \in {w \in (-1..MaxAllocWh) \X (-1..MaxAllocWh) : w[1] <= w[2]}
    /\ allocOut = <<>>
    /\ PairOff

Allocate ==
    /\ allocPc = "start"
    /\ allocPc' = "done"
    /\ allocOut' = <<AllocateSku(allocIn, allocWh[1]), AllocateSku(allocIn, allocWh[2])>>
    /\ UNCHANGED <<inputVars, dbVars, reply, allocIn, allocWh, pairVars>>

NextAlloc == Allocate

SpecAlloc == InitAlloc /\ [][NextAlloc]_vars

(* allocated_ship_qty of a store in an allocated request list *)
AllocatedOf(requests, store_id) ==
    LET k == CHOOSE i \in 1..Len(requests) : requests[i].store_id = store_id
    IN requests[k].allocated_ship_qty

---------------------------------------------------------------------------
(* One pass of the loop over the candidate rows as a function of what was  *)
(* read for the pair: on-hand quantity, tier row, daily totals of the      *)
(* sales query, seasonality multiplier, pipeline row                       *)

SeriesUpTo(n) == UNION {[1..k -> -1..MaxDailyTotal] : k \in 0..n}

PairInputs ==
    [on_hand : -1..MaxOnHand,
     tierRow : {{}, {TierA}, {TierShortExpiry}},
     totals : SeriesUpTo(MaxSeriesLen),
     mult100 : {0, 50, 100, 125},
     pipeRow : {{}, {0}, {2}}]

InitPair ==
    /\ DbOff
    /\ AllocOff
    /\ pairIn \in {{i} : i \in PairInputs}
    /\ pairOut = {}

(* the loop body: the levels, and the plan unless nothing is requested *)
ComputePair ==
    /\ pairOut = {}
    /\ \E i \in pairIn :
          LET c == PairLevels(i.on_hand, i.tierRow, FallbackSeries(i.totals),
                              i.mult100, i.pipeRow)
          IN pairOut' =
               {[levels |-> c,
                 row |-> IF c.requested_ship_qty = 0 THEN {}
                         ELSE {PlanItem(1, 1, 1, i.on_hand, i.tierRow,
                                        FallbackSeries(i.totals), i.mult100,
                                        i.pipeRow, "fallback")}]}
    /\ UNCHANGED <<inputVars, dbVars, reply, allocVars, pairIn>>

NextPair == ComputePair

SpecPair == InitPair /\ [][NextPair]_vars

(* The loop body over pairs holding about as much as 120 days of sales:    *)
(* a tier whose cover and expiry window both come to 120 days, a tier      *)
(* covering more, the defaults, and a pipeline row that may be negative    *)
TierFullCover ==
    [tier |-> "A", safety_days |-> 11, target_cover_days |-> 100, expiry_window_days |-> 120]

StockInputs ==
    [on_hand : {-1} \cup 10..13 \cup 22..24,
     tierRow : {{}, {TierFullCover}, {TierLongCover}},
     totals : SeriesUpTo(MaxSeriesLen),
     mult100 : {10, 100},
     pipeRow : {{}, {1}, {-3}}]

InitStock ==
    /\ DbOff
    /\ AllocOff
    /\ pairIn \in {{i} : i \in StockInputs}
    /\ pairOut = {}

NextStock == ComputePair

SpecStock == InitStock /\ [][NextStock]_vars

---------------------------------------------------------------------------
(* The snapshot-mode sales cache of one pair as a function of the rows of  *)
(* the window: per day the sold total and the snapshot quantity, if any    *)

SeriesInputs ==
    UNION {[totals : [1..k -> -1..MaxDailyTotal], snaps : [1..k -> {{}, {0}, {1}}]] :
              k \in 0..MaxSeriesLen}

InitSeries ==
    /\ DbOff
    /\ AllocOff
    /\ pairIn \in {{i} : i \in SeriesInputs}
    /\ pairOut = {}

(* _batch_get_daily_sales_snapshot for the pair *)
BatchGetDailySalesSnapshot ==
    /\ pairOut = {}
    /\ \E i \in pairIn : pairOut' = {[series |-> SnapshotSeries(i.totals, i.snaps)]}
    /\ UNCHANGED <<inputVars, dbVars, reply, allocVars, pairIn>>

NextSeries == BatchGetDailySalesSnapshot

SpecSeries == InitSeries /\ [][NextSeries]_vars

---------------------------------------------------------------------------
(* Properties *)

InTransaction(r) == run[r].pc \in {"deleted", "flushed"}

(* C1: every committed shipment plan row has allocated_ship_qty <=         *)
(* requested_ship_qty, contended product or not                            *)
AllocatedWithinRequested ==
    \A x \in plans : x.allocated_ship_qty <= x.requested_ship_qty

(* committed rows of a rationed product: one cut short, one served in full *)
RationedRowsCommitted ==
    \E x, y \in plans :
        /\ x.run_date = y.run_date /\ x.sku_id = y.sku_id
        /\ x.allocated_ship_qty < x.requested_ship_qty
        /\ y.allocated_ship_qty = y.requested_ship_qty

(* C2 as stated: for every product, the rows one unfiltered run produces  *)
(* allocate in total at most the warehouse quantity the run read, 0        *)
(* without a record                                                        *)
RunTotalWithinWarehouse ==
    \A r \in Sessions :
        (run[r].pc = "flushed" /\ run[r].store_id = {}) =>
            \A p \in Products :
                SumSet(RowsOfSku(run[r].inserted, p))
                    <= GetOr(inventory[WAREHOUSE_STORE_ID, p], 0)

(* C2 amended: for every product an unfiltered run produces a row for, the *)
(* rows of the run allocate in total at most the warehouse quantity the    *)
(* run read, 0 without a record                                            *)
RunTotalWithinWarehouseForRows ==
    \A r \in Sessions :
        (run[r].pc = "flushed" /\ run[r].store_id = {}) =>
            \A p \in Products :
                RowsOfSku(run[r].inserted, p) # {} =>
                    SumSet(RowsOfSku(run[r].inserted, p))
                        <= GetOr(inventory[WAREHOUSE_STORE_ID, p], 0)

(* an unfiltered run rationed a positive warehouse quantity over two stores *)
ContendedRunFlushed ==
    \E r \in Sessions, p \in Products :
        /\ run[r].pc = "flushed" /\ run[r].store_id = {}
        /\ Cardinality(RowsOfSku(run[r].inserted, p)) >= 2
        /\ inventory[WAREHOUSE_STORE_ID, p] # {}
        /\ GetOr(inventory[WAREHOUSE_STORE_ID, p], 0) > 0
        /\ SumSet(RowsOfSku(run[r].inserted, p)) = GetOr(inventory[WAREHOUSE_STORE_ID, p], 0)
        /\ \E x \in RowsOfSku(run[r].inserted, p) :
               x.allocated_ship_qty < x.requested_ship_qty

(* C3: over the committed rows of a run date and product, whichever runs  *)
(* left them, the allocated total is at most the warehouse quantity        *)
CommittedTotalWithinWarehouse ==
    \A d \in Dates, p \in Products :
        RowsOfSku(RowsOfDate(plans, d), p) # {} =>
            SumSet(RowsOfSku(RowsOfDate(plans, d), p))
                <= GetOr(inventory[WAREHOUSE_STORE_ID, p], 0)

(* C4: every committed row has allocated_ship_qty >= 0 and                 *)
(* requested_ship_qty >= 0, negative stored quantities included            *)
QuantitiesNonNegative ==
    \A x \in plans : x.allocated_ship_qty >= 0 /\ x.requested_ship_qty >= 0

(* C5: a run that fails at any step leaves the committed rows as they      *)
(* were; the committed rows change only in the step that commits a run     *)
OnlyCommitChangesPlans ==
    [][/\ (\E m \in reply' : m.op = "run" /\ m.result = "failed") => plans' = plans
       /\ plans' # plans => \E m \in reply' : m.op = "run" /\ m.result = "committed"]_vars

(* a run failed after its delete and its insert were flushed, and the rows *)
(* committed for its run date are still there                              *)
FailedAfterFlush ==
    \E m \in reply :
        /\ m.op = "run" /\ m.result = "failed" /\ m.at = "flushed"
        /\ RowsOfDate(plans, m.run_date) # {}

(* C6: a reader's query for a run date returns the rows of that date as    *)
(* of the last completed replace, never a state inside a run               *)
ReaderSeesWholePlan ==
    \A m \in reply :
        m.op = "read" => m.rows = RowsOfDate(lastCommitted, m.run_date)

(* a reader got the previous plan of a date while a run for that date had  *)
(* deleted it and flushed the new rows                                     *)
ReadDuringRun ==
    \E m \in reply, r \in Sessions :
        /\ m.op = "read" /\ m.rows # {}
        /\ run[r].pc = "flushed" /\ run[r].run_date = {m.run_date}
        /\ run[r].deleted = m.rows
        /\ run[r].inserted # {}

(* C7: two runs for the same run date are never both between their delete *)
(* and their commit                                                        *)
SameDateRunsSerialized ==
    \A r1, r2 \in Sessions :
        (r1 # r2 /\ InTransaction(r1) /\ InTransaction(r2)) =>
            run[r1].run_date # run[r2].run_date

(* C8: at most one committed row per (run_date, store_id, sku_id)          *)
OneRowPerKey ==
    \A x, y \in plans :
        (x.run_date = y.run_date /\ x.store_id = y.store_id /\ x.sku_id = y.sku_id)
            => x = y

(* C9: an unfiltered run for a date commits the same rows as the previous  *)
(* unfiltered run for that date did                                        *)
RerunIdentical ==
    [][\A d \in Dates :
          lastUnfiltered[d] # {} => lastUnfiltered'[d] = lastUnfiltered[d]]_vars

(* C10: with the requests fixed, a larger warehouse quantity gives no      *)
(* store a smaller allocation                                              *)
AllocationMonotone ==
    (allocPc = "done" /\ allocWh[1] <= allocWh[2]) =>
        \A k \in 1..Len(allocIn) :
            AllocatedOf(allocOut[1], k) <= AllocatedOf(allocOut[2], k)

(* rationed under the smaller quantity, served in full under the larger    *)
LiftedOutOfContention ==
    /\ allocPc = "done"
    /\ Len(allocIn) >= 2
    /\ 0 <= allocWh[1]
    /\ allocWh[1] < TotalRequested(allocIn)
    /\ TotalRequested(allocIn) <= allocWh[2]
    /\ \E k \in 1..Len(allocIn) :
          AllocatedOf(allocOut[1], k) < AllocatedOf(allocOut[2], k)

(* C11: for a warehouse quantity w >= 0 the allocation of a product is    *)
(* the greedy one: the stores are visited by priority_score descending,    *)
(* equal scores in input order, each is given min(requested, remaining)    *)
(* and remaining is decremented, so stores reached after it hits 0 get 0;  *)
(* 85 and 40 requested give 85 and 40 with w = 200, and 85 and 15 with     *)
(* w = 100 and priorities 10.0 and 6.0                                     *)
AllocationIsGreedy ==
    /\ allocPc = "done" =>
          \A c \in 1..2 :
              allocWh[c] >= 0 =>
                  LET n == Len(allocIn)
                      order == CHOOSE q \in Perms(1..n) :
                                  \A a, b \in 1..n :
                                      a < b =>
                                        /\ ~PrioLess(allocIn[q[a]].priority_score,
                                                     allocIn[q[b]].priority_score)
                                        /\ (allocIn[q[a]].priority_score =
                                               allocIn[q[b]].priority_score) => q[a] < q[b]
                      remaining[i \in 0..n] ==
                          IF i = 0 THEN allocWh[c]
                          ELSE remaining[i - 1] -
                                 Min2(allocIn[order[i]].requested_ship_qty, remaining[i - 1])
                  IN \A i \in 1..n :
                         AllocatedOf(allocOut[c], order[i]) =
                             Min2(allocIn[order[i]].requested_ship_qty, remaining[i - 1])
    /\ LET xy == <<AllocRequest(1, 85, 10), AllocRequest(2, 40, 6)>>
       IN /\ AllocatedOf(AllocateSku(xy, 200), 1) = 85
          /\ AllocatedOf(AllocateSku(xy, 200), 2) = 40
          /\ AllocatedOf(AllocateSku(xy, 100), 1) = 85
          /\ AllocatedOf(AllocateSku(xy, 100), 2) = 15

(* a rationed product with two stores of equal priority: the one listed    *)
(* first is served in full, the other is reached with nothing left and    *)
(* gets 0, and a store of higher priority listed after them is served      *)
GreedyTieServedInOrder ==
    /\ allocPc = "done"
    /\ allocWh[1] > 0
    /\ \E j, k, h \in 1..Len(allocIn) :
          /\ j < k /\ k < h
          /\ allocIn[j].priority_score = allocIn[k].priority_score
          /\ PrioLess(allocIn[k].priority_score, allocIn[h].priority_score)
          /\ AllocatedOf(allocOut[1], h) = allocIn[h].requested_ship_qty
          /\ AllocatedOf(allocOut[1], j) = allocIn[j].requested_ship_qty
          /\ AllocatedOf(allocOut[1], k) = 0

(* C12: a run for a run date, restricted to a store or not, deletes and  *)
(* inserts only shipment plan rows of that date, and of that store when    *)
(* restricted: the rows of other dates and, for a restricted run, of other *)
(* stores stay as they are, and no input table is written                  *)
RunWritesOnlyItsRows ==
    [][/\ inputVars' = inputVars
       /\ \A r \in Sessions :
             \A x \in run'[r].deleted \cup run'[r].inserted :
                 /\ {x.run_date} = run'[r].run_date
                 /\ run'[r].store_id = {} \/ run'[r].store_id = {x.store_id}
       /\ \A x \in (plans \ plans') \cup (plans' \ plans) :
             \E r \in Sessions :
                 /\ Active(r) /\ run'[r] = IdleRun
                 /\ {x.run_date} = run[r].run_date
                 /\ run[r].store_id = {} \/ run[r].store_id = {x.store_id}]_vars

(* a run restricted to one store has committed its row for a date that     *)
(* also has a row of the other store, while another date has rows too      *)
FilteredRunCommitted ==
    \E m \in reply :
        /\ m.op = "run" /\ m.result = "committed" /\ m.store_id # {}
        /\ \E x, y, z \in plans :
              /\ x.run_date = m.run_date /\ {x.store_id} = m.store_id /\ x.gen = nRuns
              /\ y.run_date = m.run_date /\ {y.store_id} # m.store_id /\ y.gen < nRuns
              /\ z.run_date # m.run_date

(* C13: two runs for distinct run dates that were open at the same time,   *)
(* neither overlapped by a commit for its own date, leave the committed    *)
(* rows that the two runs leave when executed one after the other on the   *)
(* table the first commit found, in either order                           *)
DistinctDateRunsCommute ==
    [][\A r \in Sessions : \A pc \in prevCommit :
          (/\ run[r].pc = "flushed" /\ run'[r] = IdleRun
           /\ \E m \in reply' : m.op = "run" /\ m.result = "committed"
           /\ run[r].gen <= pc.started
           /\ run[r].run_date # pc.run.run_date
           /\ ~run[r].clash /\ ~pc.run.clash)
          => /\ plans' = SerialRun(SerialRun(pc.base, pc.run), run[r])
             /\ plans' = SerialRun(SerialRun(pc.base, run[r]), pc.run)]_vars

(* the second of two overlapping runs for distinct dates has committed:    *)
(* the first replaced a row of its date, the second inserted one of its    *)
RunsOfTwoDatesCommitted ==
    \E m \in reply, pc \in prevCommit :
        /\ m.op = "run" /\ m.result = "committed"
        /\ m.gen <= pc.started /\ m.gen # pc.run.gen
        /\ {m.run_date} # pc.run.run_date
        /\ ~pc.run.clash
        /\ pc.run.deleted # {} /\ pc.run.inserted # {}
        /\ pc.run.inserted \subseteq plans
        /\ \E x \in plans : x.gen = m.gen /\ x.run_date = m.run_date

(* C14: with s the season-adjusted daily sales of a pair, safety_stock =   *)
(* s * safety_days, min_level = 9 * s + safety_stock, max_level =          *)
(* min_level + s * target_cover_days, expiry_cap = s * expiry_window_days, *)
(* final_max = min(max_level, expiry_cap), inventory_position = on_hand +  *)
(* on_order with on_order = 0 without a pipeline record, and               *)
(* requested_ship_qty = max(0, ceil(final_max - inventory_position));      *)
(* on_hand 10, on_order 0, s = 5 and tier (3, 7, 60) give 15, 60, 95, 300, *)
(* 95 and 85                                                               *)
LevelFormulas ==
    /\ \A i \in pairIn : \A o \in pairOut :
          LET c == o.levels
              s == c.season_adj_sales
              tp == IF i.tierRow = {}
                    THEN [safety_days |-> 3, target_cover_days |-> 7,
                          expiry_window_days |-> 60]
                    ELSE CHOOSE t \in i.tierRow : TRUE
              on_order == IF i.pipeRow = {} THEN 0 ELSE CHOOSE q \in i.pipeRow : TRUE
              gap == c.final_max - (RateScale * c.inventory_position)
          IN /\ c.safety_stock = s * tp.safety_days
             /\ c.min_level = (9 * s) + c.safety_stock
             /\ c.max_level = c.min_level + (s * tp.target_cover_days)
             /\ c.expiry_cap = s * tp.expiry_window_days
             /\ c.final_max = IF c.max_level <= c.expiry_cap THEN c.max_level
                              ELSE c.expiry_cap
             /\ c.inventory_position = i.on_hand + on_order
             /\ c.requested_ship_qty >= 0
             /\ c.requested_ship_qty = 0 => gap <= 0
             /\ c.requested_ship_qty > 0 =>
                   /\ RateScale * (c.requested_ship_qty - 1) < gap
                   /\ gap <= RateScale * c.requested_ship_qty
    /\ LET a == PairLevels(10, {}, <<5>>, 100, {})
       IN /\ a.season_adj_sales = 5 * RateScale
          /\ a.safety_stock = 15 * RateScale
          /\ a.min_level = 60 * RateScale
          /\ a.max_level = 95 * RateScale
          /\ a.expiry_cap = 300 * RateScale
          /\ a.final_max = 95 * RateScale
          /\ a.requested_ship_qty = 85

(* a pair with units on order whose expiry cap is below its max level and  *)
(* whose gap to final_max is not a whole number of units                   *)
CappedPairRoundedUp ==
    \E i \in pairIn : \E o \in pairOut :
        /\ i.pipeRow # {} /\ o.levels.on_order > 0
        /\ o.levels.expiry_cap < o.levels.max_level
        /\ o.levels.requested_ship_qty > 0
        /\ (o.levels.final_max - (RateScale * o.levels.inventory_position)) % RateScale # 0

(* C15: every plan row, as stored with its levels rounded to two decimals, *)
(* has final_max = min(max_level, expiry_cap) and min_level <= max_level   *)
StoredLevelsConsistent ==
    \A x \in plans \cup UNION {o.row : o \in pairOut} :
        /\ x.final_max = IF x.max_level <= x.expiry_cap THEN x.max_level
                         ELSE x.expiry_cap
        /\ x.min_level <= x.max_level

(* a stored row whose expiry cap binds and is not a whole number of        *)
(* hundredths before rounding, with a positive rate                        *)
CappedRowRounded ==
    \E o \in pairOut : \E x \in o.row :
        /\ (o.levels.final_max * 100) % RateScale # 0
        /\ x.final_max = x.expiry_cap /\ x.expiry_cap < x.max_level
        /\ x.min_level < x.max_level

(* C16: after any sequence of tier upserts and deletes a run computes     *)
(* each store's rows with the store's current tier row, or with exactly    *)
(* tier B, 3 safety days, 7 target cover days and a 60 day expiry window   *)
(* when the store has none, and get_store_tier_params returns the          *)
(* parameters the run uses                                                 *)
RunUsesCurrentTier ==
    /\ \A st \in Stores : GetStoreTierParams(st) = TierParams(storeTiers[st])
    /\ \A r \in Sessions :
          run[r].pc = "flushed" =>
              \A x \in run[r].inserted :
                  LET tp == IF storeTiers[x.store_id] = {}
                            THEN [tier |-> "B", safety_days |-> 3,
                                  target_cover_days |-> 7, expiry_window_days |-> 60]
                            ELSE CHOOSE t \in storeTiers[x.store_id] : TRUE
                      rate == x.season_adjusted_daily_sales
                  IN /\ GetStoreTierParams(x.store_id) = tp
                     /\ x.safety_stock = Round(rate * tp.safety_days, 10000, 2)
                     /\ x.min_level = Round(rate * (9 + tp.safety_days), 10000, 2)
                     /\ x.max_level =
                           Round(rate * (9 + tp.safety_days + tp.target_cover_days), 10000, 2)
                     /\ x.expiry_cap = Round(rate * tp.expiry_window_days, 10000, 2)

(* a run has computed store 1's row with the tier row upserted for it and  *)
(* store 2's row with the default, store 2's tier row having been deleted  *)
RunAfterUpsertAndDelete ==
    \E r \in Sessions : \E x, y \in run[r].inserted :
        /\ run[r].pc = "flushed"
        /\ x.store_id = 1 /\ storeTiers[1] = {TierA}
        /\ x.safety_stock = Round(x.season_adjusted_daily_sales * 4, 10000, 2)
        /\ y.store_id = 2 /\ storeTiers[2] = {}
        /\ y.safety_stock = Round(y.season_adjusted_daily_sales * 3, 10000, 2)
        /\ x.season_adjusted_daily_sales > 0

ReadinessMatchesRun ==
    /\ \A m \in reply :
          m.op = "data_readiness" =>
              LET count == snapshotDays
                  res == m.result
              IN /\ res.snapshot_days_available = count
                 /\ res.calculation_mode = "snapshot" <=> count >= 28
                 /\ res.calculation_mode = "fallback" <=> count < 28
                 /\ res.days_until_full_accuracy =
                       IF 28 - count > 0 THEN 28 - count ELSE 0
                 /\ res.calculation_mode = "snapshot" <=> res.days_until_full_accuracy = 0
                 /\ res.full_accuracy_date = m.today + res.days_until_full_accuracy
    /\ \A x \in plans \cup UNION {run[r].inserted : r \in Sessions} :
          \A today \in Dates :
              x.calculation_mode = DataReadiness(snapshotDays, today).calculation_mode
    /\ DataReadiness(20, 1).calculation_mode = "fallback"
    /\ DataReadiness(20, 1).days_until_full_accuracy = 8

(* readiness reports snapshot mode on exactly 28 snapshot days, and the    *)
(* committed rows of a run on that history carry snapshot mode             *)
SnapshotModeAt28 ==
    \E m \in reply :
        /\ m.op = "data_readiness"
        /\ snapshotDays = 28
        /\ m.result.calculation_mode = "snapshot"
        /\ m.result.days_until_full_accuracy = 0
        /\ \E x \in plans : x.calculation_mode = "snapshot"

LatestPlanAndNoRunYet ==
    \A m \in reply :
        /\ (m.op = "latest" /\ plans # {}) =>
              LET d == CHOOSE e \in {x.run_date : x \in plans} :
                           \A x \in plans : x.run_date <= e
                  n == Len(m.items)
              IN /\ m.run_date = {d}
                 /\ n = Len(m.rows)
                 /\ \A j, k \in 1..n : m.rows[j] = m.rows[k] => j = k
                 /\ {m.rows[k] : k \in 1..n} =
                       {x \in plans :
                           /\ x.run_date = d
                           /\ m.store_ids = {} \/ x.store_id \in m.store_ids
                           /\ m.sku_ids = {} \/ x.sku_id \in m.sku_ids}
                 /\ \A k \in 1..n :
                       /\ m.items[k].store_id = m.rows[k].store_id
                       /\ m.items[k].sku_id = m.rows[k].sku_id
                       /\ m.items[k].allocated_ship_qty = m.rows[k].allocated_ship_qty
        /\ (m.op \in {"latest", "picklist", "exceptions"} /\ plans = {}) =>
              /\ m.run_date = {}
              /\ IF m.op = "picklist" THEN m.items = {} /\ m.total_units = 0
                 ELSE m.items = <<>>

(* C21: a run does not fail for missing calculation data: a store without *)
(* a tier row is computed with the Tier B values (3, 7, 60), a pair        *)
(* without sales with avg_daily_sales = 0, a pair without a pipeline       *)
(* record with on_order = 0, a product without an inventory record of the  *)
(* warehouse with 0 units available, so that every requesting store is     *)
(* allocated 0; the run computes its plans and returns a complete summary  *)
GapsResolvedByDefaults ==
    /\ \A r \in Sessions :
          /\ run[r].pc = "deleted" =>
                LET plan_items == PlanItems(RunCache(r), run[r].store_sku_rows,
                                            GetOr(run[r].run_date, 0))
                    flushed == ComputePlans(RunCache(r), run[r].store_sku_rows,
                                            GetOr(run[r].run_date, 0))
                IN /\ Len(plan_items) <= Len(run[r].store_sku_rows)
                   /\ Cardinality(flushed) = Len(plan_items)
          /\ run[r].pc = "flushed" =>
                /\ \E sm \in run[r].summary :
                      /\ sm.total_items = Cardinality(run[r].inserted)
                      /\ sm.run_date = GetOr(run[r].run_date, 0)
                /\ \A x \in run[r].inserted :
                      LET sp == <<x.store_id, x.sku_id>>
                          s == Median2(FallbackSeries(dailyTotals[sp])) * seasonalityMult
                      IN /\ storeTiers[x.store_id] = {} =>
                               /\ x.safety_stock = Round(3 * s, 200, 2)
                               /\ x.min_level = Round((9 + 3) * s, 200, 2)
                               /\ x.max_level = Round((9 + 3 + 7) * s, 200, 2)
                               /\ x.expiry_cap = Round(60 * s, 200, 2)
                         /\ dailyTotals[sp] = <<>> =>
                               x.avg_daily_sales = 0 /\ x.season_adjusted_daily_sales = 0
                         /\ storePipeline[sp] = {} =>
                               x.on_order = 0 /\ x.inventory_position = x.on_hand
                         /\ inventory[WAREHOUSE_STORE_ID, x.sku_id] = {} =>
                               x.allocated_ship_qty = 0
    /\ \A m \in reply :
          (m.op = "run" /\ m.result = "committed") =>
              \E sm \in m.summary :
                  sm.total_items = Cardinality({x \in plans : x.gen = m.gen})

(* a run has committed a row for a store without a tier row, for a pair    *)
(* without sales and without a pipeline record, of a product without a     *)
(* warehouse record, next to the row of a store that has sales             *)
RunCommittedOverGaps ==
    \E m \in reply :
        /\ m.op = "run" /\ m.result = "committed"
        /\ \E sm \in m.summary : sm.total_items = 2 /\ sm.total_allocated_units = 0
        /\ \E x \in plans :
              /\ x.gen = m.gen
              /\ storeTiers[x.store_id] = {}
              /\ dailyTotals[x.store_id, x.sku_id] = <<>>
              /\ storePipeline[x.store_id, x.sku_id] = {}
              /\ inventory[WAREHOUSE_STORE_ID, x.sku_id] = {}
              /\ x.requested_ship_qty = 1 /\ x.allocated_ship_qty = 0

(* C22: in snapshot mode the series of a pair holds the sold total of a    *)
(* day of the window if and only if the day has a snapshot of the pair     *)
(* with quantity_on_hand > 0, whatever the total is; a day without a       *)
(* snapshot or with a snapshot of zero stock is left out                   *)
SeriesOfStockedDays ==
    \A i \in pairIn : \A o \in pairOut :
        LET stocked == {k \in 1..Len(i.totals) : \E q \in i.snaps[k] : q > 0}
            Keep[k \in 0..Len(i.totals)] ==
                IF k = 0 THEN <<>>
                ELSE IF k \in stocked THEN Append(Keep[k - 1], i.totals[k])
                ELSE Keep[k - 1]
        IN o.series = Keep[Len(i.totals)]

(* C23: after a run commits, the committed rows of its run date (and of   *)
(* its store, when restricted) correspond one to one to the candidate      *)
(* pairs whose final_max exceeds their inventory_position: each such pair  *)
(* has exactly one row, with requested_ship_qty >= 1, and a pair that      *)
(* requests nothing has no row                                             *)
RowsMatchRequestingPairs ==
    \A m \in reply :
        (m.op = "run" /\ m.result = "committed") =>
            \A sp \in Stores \X Products :
                (inventory[sp] # {} /\ (m.store_id = {} \/ m.store_id = {sp[1]})) =>
                    LET tp == TierParams(storeTiers[sp[1]])
                        s == SeasonAdj(Median2(FallbackSeries(dailyTotals[sp])),
                                       seasonalityMult)
                        inventory_position ==
                            GetOr(inventory[sp], 0) + GetOr(storePipeline[sp], 0)
                        rows == {x \in plans : /\ x.run_date = m.run_date
                                               /\ x.store_id = sp[1]
                                               /\ x.sku_id = sp[2]}
                    IN IF FinalMax(s, tp) > RateScale * inventory_position
                       THEN /\ Cardinality(rows) = 1
                            /\ \A x \in rows : x.requested_ship_qty >= 1
                       ELSE rows = {}

(* C24: the summary an unrestricted run returns agrees with the rows it   *)
(* commits: total_items is the number of rows inserted,                    *)
(* total_requested_units and total_allocated_units are the sums of         *)
(* requested_ship_qty and allocated_ship_qty over them, the allocated      *)
(* total not above the requested one, and exceptions_count is the          *)
(* total_exceptions that exceptions(run_date) returns right after the run  *)
SummaryAgreesWithRows ==
    /\ [](\A r \in Sessions :
            (run[r].pc = "flushed" /\ run[r].store_id = {}) =>
                \E sm \in run[r].summary :
                    /\ sm.total_items = Cardinality(run[r].inserted)
                    /\ sm.total_requested_units = SumRequested(run[r].inserted)
                    /\ sm.total_allocated_units = SumSet(run[r].inserted)
                    /\ sm.total_allocated_units <= sm.total_requested_units)
    /\ [][\A m \in reply, e \in reply' :
            (/\ m.op = "run" /\ m.result = "committed" /\ m.store_id = {}
             /\ e.op = "exceptions" /\ e.arg = {m.run_date})
            => \E sm \in m.summary : e.total_exceptions = sm.exceptions_count]_vars

(* C25: a run reads every input once, when it starts and before it        *)
(* deletes the old rows, and works from what it read: what it holds is not *)
(* read again while it is open, and a change another session makes to an   *)
(* input after the run has read it does not alter the rows it commits      *)
RunKeepsItsReads ==
    /\ [](\A r \in Sessions :
            /\ Active(r) => Cardinality(run[r].cache) = 1
            /\ run[r].pc = "flushed" =>
                  Strip(run[r].inserted) =
                      Strip(ComputePlans(CHOOSE c \in run[r].cache : TRUE,
                                         run[r].store_sku_rows,
                                         GetOr(run[r].run_date, 0))))
    /\ [][\A r \in Sessions :
            /\ (run[r].pc = "idle" /\ Active(r)') =>
                  /\ run'[r].cache = {Preload}
                  /\ run'[r].deleted = {} /\ run'[r].inserted = {}
                  /\ run'[r].store_sku_rows \in Perms(CandidateRows(run'[r].store_id))
            /\ (Active(r) /\ Active(r)') =>
                  /\ run'[r].cache = run[r].cache
                  /\ run'[r].store_sku_rows = run[r].store_sku_rows
            /\ (run[r].pc = "flushed" /\ run'[r].pc = "idle" /\ plans' # plans) =>
                  run[r].inserted \subseteq plans']_vars

(* a run has flushed rows that differ from the rows the stored inputs of   *)
(* the moment would give: the tier or the pipeline changed after its reads *)
RunFlushedAfterInputChange ==
    \E r \in Sessions :
        /\ run[r].pc = "flushed"
        /\ run[r].inserted # {}
        /\ Strip(run[r].inserted) #
              Strip(ComputePlans(Preload, run[r].store_sku_rows, GetOr(run[r].run_date, 0)))

(* C26: for a product whose warehouse quantity w, 0 <= w < total           *)
(* requested, is rationed, the allocation uses up the warehouse exactly:   *)
(* the allocations of the contending stores sum to w, at most one store    *)
(* receives a part of its request, every store ranked above it receives    *)
(* its request in full and every store ranked below it receives 0          *)
RationingExhaustsWarehouse ==
    allocPc = "done" =>
        \A c \in 1..2 :
            (allocWh[c] >= 0 /\ allocWh[c] < TotalRequested(allocIn)) =>
                LET ranked == allocOut[c]
                    n == Len(ranked)
                    partial == {i \in 1..n :
                                   /\ 0 < ranked[i].allocated_ship_qty
                                   /\ ranked[i].allocated_ship_qty <
                                          ranked[i].requested_ship_qty}
                IN /\ n = Len(allocIn)
                   /\ {ranked[i].store_id : i \in 1..n} =
                         {allocIn[i].store_id : i \in 1..n}
                   /\ \A i \in 1..(n - 1) :
                         ~PrioLess(ranked[i].priority_score, ranked[i + 1].priority_score)
                   /\ SumSeq([i \in 1..n |-> ranked[i].allocated_ship_qty]) = allocWh[c]
                   /\ Cardinality(partial) <= 1
                   /\ \A i \in 1..n :
                         ranked[i].allocated_ship_qty \in 0..ranked[i].requested_ship_qty
                   /\ \A i \in partial :
                         /\ \A j \in 1..(i - 1) :
                               ranked[j].allocated_ship_qty = ranked[j].requested_ship_qty
                         /\ \A j \in (i + 1)..n : ranked[j].allocated_ship_qty = 0

(* three stores contend: the first in rank is served in full, the second   *)
(* receives 1 of the 2 units it requests, the third receives nothing       *)
PartialStoreBetweenFullAndZero ==
    /\ allocPc = "done"
    /\ Len(allocIn) = 3
    /\ allocWh[1] >= 0 /\ allocWh[1] < TotalRequested(allocIn)
    /\ allocOut[1][1].allocated_ship_qty = allocOut[1][1].requested_ship_qty
    /\ allocOut[1][2].allocated_ship_qty = 1
    /\ allocOut[1][2].requested_ship_qty = 2
    /\ allocOut[1][3].allocated_ship_qty = 0

(* C27: the rows run(run_date) commits depend on run_date and the stored  *)
(* inputs only, not on the calendar day of the execution: an unrestricted  *)
(* run for a date over unchanged stored data commits the rows, with their  *)
(* demand estimate and calculation_mode, that the unrestricted run before  *)
(* it committed for that date, on whichever days the two were executed     *)
RunIndependentOfToday ==
    [][\A r \in Sessions : \A d \in Dates :
          (/\ run[r].pc = "flushed" /\ run'[r].pc = "idle"
           /\ \E m \in reply' : m.op = "run" /\ m.result = "committed"
           /\ run[r].run_date = {d} /\ run[r].store_id = {}
           /\ lastUnfiltered[d] # {})
          => lastUnfiltered'[d] = lastUnfiltered[d]]_vars

(* C28: after run(d) commits, the committed rows of date d, of the run's  *)
(* store when it is restricted, are exactly the rows that run computed,    *)
(* also when it computed none: the earlier rows of the date are gone and   *)
(* nothing is inserted; latestPlan then returns the plan of the greatest   *)
(* run date that still has rows, or the result of no run when none has     *)
RunOwnsItsDate ==
    /\ [][\A r \in Sessions :
            (/\ run[r].pc = "flushed" /\ run'[r].pc = "idle"
             /\ \E m \in reply' : m.op = "run" /\ m.result = "committed")
            => {x \in plans' : /\ {x.run_date} = run[r].run_date
                               /\ run[r].store_id = {} \/ run[r].store_id = {x.store_id}}
                  = run[r].inserted]_vars
    /\ [](\A m \in reply :
            m.op = "latest" =>
                IF plans = {} THEN m.run_date = {} /\ m.items = <<>>
                ELSE \E d \in m.run_date :
                        /\ \E x \in plans : x.run_date = d
                        /\ \A x \in plans : x.run_date <= d
                        /\ (m.store_ids = {} /\ m.sku_ids = {}) =>
                              {m.rows[k] : k \in 1..Len(m.rows)} =
                                  {x \in plans : x.run_date = d})

(* C29: the warehouse quantity the allocation uses comes from the         *)
(* inventory record of the warehouse store only: an update of the          *)
(* warehouse_inventory table changes no allocated_ship_qty, and runs over  *)
(* stored states that differ in warehouse_inventory rows only commit the   *)
(* same plan rows                                                          *)
AllocationIgnoresWarehouseInventory ==
    /\ [](\A r \in Sessions :
            run[r].pc = "flushed" =>
                \A p \in Products :
                    LET rows == RowsOfSku(run[r].inserted, p)
                        w == GetOr(inventory[WAREHOUSE_STORE_ID, p], 0)
                    IN rows # {} =>
                         SumSet(rows) = Min2(SumRequested(rows), w))
    /\ [][/\ warehouseInventory' # warehouseInventory =>
                (plans' = plans /\ run' = run)
          /\ \A r \in Sessions : \A d \in Dates :
                (/\ run[r].pc = "flushed" /\ run'[r].pc = "idle"
                 /\ \E m \in reply' : m.op = "run" /\ m.result = "committed"
                 /\ run[r].run_date = {d} /\ run[r].store_id = {}
                 /\ lastUnfiltered[d] # {})
                => lastUnfiltered'[d] = lastUnfiltered[d]]_vars

(* the second run for a date has committed a rationed plan of the one      *)
(* unit of the warehouse store's inventory row while the                   *)
(* warehouse_inventory table says 3 units                                  *)
RationedWhileWarehouseInventoryDiffers ==
    \E m \in reply :
        /\ m.op = "run" /\ m.result = "committed" /\ m.gen >= 2
        /\ \A o \in lastUnfiltered[m.run_date] : o # {}
        /\ warehouseInventory[1] = {3}
        /\ inventory[WAREHOUSE_STORE_ID, 1] = {1}
        /\ \E x, y \in plans :
              /\ x.gen = m.gen /\ y.gen = m.gen
              /\ x.allocated_ship_qty = 1
              /\ y.allocated_ship_qty = 0 /\ y.requested_ship_qty > 0

(* C30: a plan row of a pair with on_order >= 0 whose store has           *)
(* min(9 + safety_days + target_cover_days, expiry_window_days) <= 120,    *)
(* the Tier B defaults among them, has days_of_stock <= 120, and so is     *)
(* neither counted nor typed as an overstock exception                     *)
DaysOfStockWithinLimit ==
    \A i \in pairIn : \A o \in pairOut : \A x \in o.row :
        LET tp == IF i.tierRow = {}
                  THEN [safety_days |-> 3, target_cover_days |-> 7,
                        expiry_window_days |-> 60]
                  ELSE CHOOSE t \in i.tierRow : TRUE
        IN (/\ x.on_order >= 0
            /\ Min2(9 + tp.safety_days + tp.target_cover_days,
                    tp.expiry_window_days) <= 120)
           => /\ x.days_of_stock <= 120 * 100
              /\ ExceptionType(x) # "overstock"
              /\ ExceptionsCount({x}) = 1 =>
                    (x.on_hand < 0 \/ x.allocated_ship_qty < x.requested_ship_qty)

(* a store covering exactly 120 days that sells 0.2 a day and holds 23     *)
(* units requests 1 unit at 115 days of stock                              *)
RowJustUnderLimit ==
    \E i \in pairIn : \E o \in pairOut : \E x \in o.row :
        /\ i.tierRow = {TierFullCover}
        /\ x.on_order >= 0
        /\ x.on_hand = 23
        /\ x.requested_ship_qty = 1
        /\ x.days_of_stock = 115 * 100

====
